---- MODULE Spec2Model ----
(***************************************************************************)
(* Two reveal.js plugins of the repository.                                *)
(*                                                                         *)
(*  - The SVG layer step-reveal plugin (reveal-svg-layers): containers,    *)
(*    their graphic, the layer groups, the fragment placeholders, the      *)
(*    deck's listener registry and the teardown list.                      *)
(*  - The floating debug helper (plugin/floating-dev-helper.js): one       *)
(*    overlay target, its drag gesture and its committed style variables.  *)
(*                                                                         *)
(* A DOM element of a graphic is identified by <<container, index>>, the   *)
(* index being its place in the document order of the graphic's groups.    *)
(* An attribute holding a comma separated list is the sequence of its      *)
(* pieces between the commas; an absent attribute is the empty sequence.   *)
(***************************************************************************)
EXTENDS Integers, Sequences, FiniteSets, TLC

VARIABLES
    cfg,          \* per container: its authored markup (never changes)
    deck,         \* the plugin's deck handle: "null" or "deck"
    processed,    \* container.__rsvgProcessed
    pc,           \* initContainer's promise per container
    fetchStatus,  \* how the container's retrieval ended
    dom,          \* per container: the graphic in it and the groups of that graphic
    uidCounter,   \* the counter c of uniqId
    closureUid,   \* the uid of the container's buildSteps closure (0: not built)
    stepLayers,   \* the stepLayers of the container's buildSteps closure
    placeholders, \* the placeholders of the container's buildSteps closure
    hidden,       \* the elements carrying the class rsvg-hidden
    subs,         \* the deck's listener registry: <<event, container>>
    teardownFns,  \* the teardown closures, by container
    initCalls,    \* the promises returned by init
    logged,       \* containers for which console.error was called
    ov            \* the overlay helper's target element and gesture state

lvars == <<cfg, deck, processed, pc, fetchStatus, dom, uidCounter, closureUid,
           stepLayers, placeholders, hidden, subs, teardownFns, initCalls, logged>>

vars == <<cfg, deck, processed, pc, fetchStatus, dom, uidCounter, closureUid,
          stepLayers, placeholders, hidden, subs, teardownFns, initCalls, logged, ov>>

-----------------------------------------------------------------------------
(* Sequences *)

Range(s) == {s[i] : i \in 1..Len(s)}

Reverse(s) == [i \in 1..Len(s) |-> s[Len(s) + 1 - i]]

MapSeq(s, F(_)) == [i \in 1..Len(s) |-> F(s[i])]

SeqsUpTo(S, n) == UNION {[1..k -> S] : k \in 0..n}

-----------------------------------------------------------------------------
(* Strings: String.prototype.toLowerCase and trim on the labels in use *)

toLowerCase(s) ==
    CASE s = "Axes"    -> "axes"
      [] s = "AXES"    -> "axes"
      [] s = "Grid"    -> "grid"
      [] s = "Step1"   -> "step1"
      [] s = "STEP1"   -> "step1"
      [] s = "Step2"   -> "step2"
      [] s = "Step3"   -> "step3"
      [] s = "Reverse" -> "reverse"
      [] s = "Document" -> "document"
      [] OTHER         -> s

trim(s) ==
    CASE s = " Step2" -> "Step2"
      [] s = " Grid"  -> "Grid"
      [] s = " "      -> ""
      [] OTHER        -> s

\* toList: split at the commas, trim every piece, drop the empty ones.
toList(attrVal) == SelectSeq(MapSeq(attrVal, trim), LAMBDA s : s # "")

\* The label of a group: inkscape:label, else data-label, else id, else ''.
getInkscapeLabel(el) ==
    IF el.ink # "" THEN el.ink
    ELSE IF el.data # "" THEN el.data
    ELSE el.id

\* The indices of the groups of svg that are "layers".
findLayers(svg) ==
    LET all == [i \in 1..Len(svg) |-> i]
        inkscapeLayers == SelectSeq(all, LAMBDA i : svg[i].mode = "layer")
        topLevelGroups == SelectSeq(all, LAMBDA i : svg[i].top /\ svg[i].id # "")
    IN  IF Len(inkscapeLayers) > 0 THEN inkscapeLayers
        ELSE IF Len(topLevelGroups) > 0 THEN topLevelGroups
        ELSE all

-----------------------------------------------------------------------------
(* buildSteps: the partition into base and step layers *)

byName(svg, g) == toLowerCase(getInkscapeLabel(svg[g]))

baseSet(c) == {toLowerCase(n) : n \in Range(toList(c.base))}

dataOrder(c) == toLowerCase(IF c.order = "" THEN "document" ELSE c.order)

BaseLayers(c, svg) ==
    SelectSeq(findLayers(svg), LAMBDA g : byName(svg, g) \in baseSet(c))

\* every layer taken as a candidate step, the base layers too
NonBaseLayersAll(c, svg) == findLayers(svg)

NonBaseLayers(c, svg) ==
    SelectSeq(findLayers(svg), LAMBDA g : byName(svg, g) \notin baseSet(c))

\* new Map(stepLayers.map(el => [byName(el), el])).get(n): the last group of
\* that name wins; 0 stands for undefined.
mapByNameGet(svg, layers, n) ==
    LET at == {i \in 1..Len(layers) : byName(svg, layers[i]) = n}
    IN  IF at = {} THEN 0
        ELSE layers[CHOOSE i \in at : \A j \in at : j <= i]

\* the included layers in document order instead of the include list's
IncludedLayersInDocumentOrder(c, svg) ==
    LET names == {toLowerCase(n) : n \in Range(toList(c.include))}
    IN  SelectSeq(NonBaseLayers(c, svg), LAMBDA g : byName(svg, g) \in names)

\* the include branch without .filter(Boolean)
IncludedLayersKeepsMissing(c, svg) ==
    LET includeList == toList(c.include)
    IN  [i \in 1..Len(includeList) |->
            mapByNameGet(svg, NonBaseLayers(c, svg), toLowerCase(includeList[i]))]

IncludedLayers(c, svg) ==
    LET includeList == toList(c.include)
        found == [i \in 1..Len(includeList) |->
                    mapByNameGet(svg, NonBaseLayers(c, svg), toLowerCase(includeList[i]))]
    IN  SelectSeq(found, LAMBDA g : g # 0)

\* data-order compared without lower-casing
OrderedLayersCaseSensitive(c, svg) ==
    IF c.order = "Reverse" THEN Reverse(NonBaseLayers(c, svg))
    ELSE NonBaseLayers(c, svg)

OrderedLayers(c, svg) ==
    IF dataOrder(c) = "reverse" THEN Reverse(NonBaseLayers(c, svg))
    ELSE NonBaseLayers(c, svg)

\* the include list ignored
StepLayersAllNonBase(c, svg) == OrderedLayers(c, svg)

StepLayers(c, svg) ==
    IF Len(toList(c.include)) > 0 THEN IncludedLayers(c, svg)
    ELSE OrderedLayers(c, svg)

-----------------------------------------------------------------------------
(* The markup the model is run on *)

Containers == {"c1", "c2"}

\* document order of the containers (root.querySelectorAll(options.selector))
ContainerOrder == <<"c1", "c2">>

Slides == {"s1", "s2"}

Events == {"fragmentshown", "fragmenthidden", "slidechanged"}

\* marked: the group is authored with the class rsvg-hidden
Layer(label) ==
    [mode |-> "layer", top |-> TRUE, ink |-> label, data |-> "", id |-> "", marked |-> FALSE]

HiddenLayer(label) == [Layer(label) EXCEPT !.marked = TRUE]

Group(top, data, id) ==
    [mode |-> "", top |-> top, ink |-> "", data |-> data, id |-> id, marked |-> FALSE]

\* Axes, Grid, Step1, Step2, Step3 with base = Axes,Grid and include = Step1,Step3
Scenario ==
    [svg |-> <<Layer("Axes"), Layer("Grid"), Layer("Step1"), Layer("Step2"), Layer("Step3")>>,
     inline |-> TRUE, src |-> "", base |-> <<"Axes", " Grid">>,
     include |-> <<"Step1", "Step3">>, order |-> "", slide |-> "s1"]

\* an inline graphic without layers: its top-level groups with an id are the layers
InlineDocument ==
    [svg |-> <<Group(TRUE, "", "Step1"), Group(FALSE, "", "Step3"), Group(TRUE, "Step2", "g2")>>,
     inline |-> TRUE, src |-> "", base |-> <<>>,
     include |-> <<"", " ">>, order |-> "Document", slide |-> "s2"]

\* its base layer is authored hidden
ExternalReverse ==
    [svg |-> <<HiddenLayer("Axes"), Layer("Step1"), Layer("Step2")>>,
     inline |-> FALSE, src |-> "figures/diagram.svg", base |-> <<"axes">>,
     include |-> <<>>, order |-> "Reverse", slide |-> "s2"]

\* an include list that repeats a name, names a base layer and names no group;
\* Step2, in neither list, is authored hidden
ExternalRepeat ==
    [svg |-> <<Layer("Axes"), Layer("Step1"), HiddenLayer("Step2")>>,
     inline |-> FALSE, src |-> "figures/diagram.svg", base |-> <<"AXES">>,
     include |-> <<"Step1", "Axes", "STEP1", "Step3">>, order |-> "", slide |-> "s1"]

\* two groups carrying one label
ExternalTwins ==
    [svg |-> <<Layer("Step1"), Layer("STEP1"), Layer("Grid")>>,
     inline |-> FALSE, src |-> "figures/diagram.svg", base |-> <<>>,
     include |-> <<"step1", " Grid">>, order |-> "reverse", slide |-> "s2"]

\* the scenario's graphic, loaded from data-src
ExternalScenario ==
    [svg |-> <<Layer("Axes"), Layer("Grid"), Layer("Step1"), Layer("Step2"), Layer("Step3")>>,
     inline |-> FALSE, src |-> "figures/steps.svg", base |-> <<"Axes", " Grid">>,
     include |-> <<"Step1", "Step3">>, order |-> "", slide |-> "s2"]

\* a container with neither a graphic nor a data-src
Bare ==
    [svg |-> <<>>, inline |-> FALSE, src |-> "", base |-> <<>>,
     include |-> <<>>, order |-> "", slide |-> "s1"]

FirstConfigs == {Scenario, InlineDocument, ExternalScenario}

SecondConfigs == {ExternalReverse, ExternalRepeat, ExternalTwins}

-----------------------------------------------------------------------------
(* The plugin's mutable state as one value, for the handlers that call one
   another *)

Pack ==
    [processed |-> processed, pc |-> pc, dom |-> dom, uidCounter |-> uidCounter,
     closureUid |-> closureUid, stepLayers |-> stepLayers,
     placeholders |-> placeholders, hidden |-> hidden, subs |-> subs,
     teardownFns |-> teardownFns, logged |-> logged]

Unpack(S) ==
    /\ processed' = S.processed
    /\ pc' = S.pc
    /\ dom' = S.dom
    /\ uidCounter' = S.uidCounter
    /\ closureUid' = S.closureUid
    /\ stepLayers' = S.stepLayers
    /\ placeholders' = S.placeholders
    /\ hidden' = S.hidden
    /\ subs' = S.subs
    /\ teardownFns' = S.teardownFns
    /\ logged' = S.logged

\* the groups of a graphic of container k that are authored with rsvg-hidden
AuthoredHidden(k, groups) == {<<k, g>> : g \in {h \in 1..Len(groups) : groups[h].marked}}

hideLayer(H, el) == H \cup {el}

showLayer(H, el) == H \ {el}

\* Hide all step layers, then show those whose fragment is currently visible.
syncFromVisibleFragments(H, steps, phs) ==
    LET allHidden == H \cup Range(steps)
    IN  allHidden \ {phs[i].layer : i \in {j \in 1..Len(phs) : phs[j].visible}}

\* one span per distinct step layer
MakePlaceholdersDistinct(steps, uid) ==
    LET firsts == SelectSeq([i \in 1..Len(steps) |-> i],
                            LAMBDA i : \A j \in 1..(i - 1) : steps[j] # steps[i])
    IN  [i \in 1..Len(firsts) |->
            [uid |-> uid, index |-> i - 1, layer |-> steps[firsts[i]],
             attached |-> TRUE, visible |-> FALSE]]

\* The spans created for the step layers, in their order.
MakePlaceholders(steps, uid) ==
    [i \in 1..Len(steps) |->
        [uid |-> uid, index |-> i - 1, layer |-> steps[i],
         attached |-> TRUE, visible |-> FALSE]]

Subscribe(registry, k) == registry \cup {<<e, k>> : e \in Events}

\* buildSteps without baseLayers.forEach(showLayer)
buildStepsKeepsBase(S, k, svg) ==
    LET steps == MapSeq(StepLayers(cfg[k], svg), LAMBDA g : <<k, g>>)
        uid == S.uidCounter + 1
        phs == MakePlaceholders(steps, uid)
    IN  [S EXCEPT !.uidCounter = uid,
                  !.closureUid[k] = uid,
                  !.stepLayers[k] = steps,
                  !.placeholders[k] = phs,
                  !.subs = Subscribe(@, k),
                  !.teardownFns = Append(@, k),
                  !.hidden = syncFromVisibleFragments(S.hidden \cup Range(steps), steps, phs)]

buildSteps(S, k, svg) ==
    LET base  == MapSeq(BaseLayers(cfg[k], svg), LAMBDA g : <<k, g>>)
        steps == MapSeq(StepLayers(cfg[k], svg), LAMBDA g : <<k, g>>)
        initial == (S.hidden \ Range(base)) \cup Range(steps)
        uid == S.uidCounter + 1
        phs == MakePlaceholders(steps, uid)
    IN  [S EXCEPT !.uidCounter = uid,
                  !.closureUid[k] = uid,
                  !.stepLayers[k] = steps,
                  !.placeholders[k] = phs,
                  !.subs = Subscribe(@, k),
                  !.teardownFns = Append(@, k),
                  !.hidden = syncFromVisibleFragments(initial, steps, phs)]

\* a teardown that leaves the listeners registered
teardownKeepsListeners(S, k) ==
    [S EXCEPT !.placeholders[k] = [i \in DOMAIN @ |-> [@[i] EXCEPT !.attached = FALSE]],
              !.hidden = @ \ Range(S.stepLayers[k])]

\* a teardown that shows every group of the container's graphic
teardownShowsAll(S, k) ==
    [S EXCEPT !.subs = @ \ {<<e, k>> : e \in Events},
              !.placeholders[k] = [i \in DOMAIN @ |-> [@[i] EXCEPT !.attached = FALSE]],
              !.hidden = @ \ {<<k, g>> : g \in 1..Len(S.dom[k].groups)}]

\* The closure pushed on teardownFns by buildSteps.
teardown(S, k) ==
    [S EXCEPT !.subs = @ \ {<<e, k>> : e \in Events},
              !.placeholders[k] = [i \in DOMAIN @ |-> [@[i] EXCEPT !.attached = FALSE]],
              !.hidden = @ \ Range(S.stepLayers[k])]

\* ev.fragment: a placeholder, another element of the deck, or nothing.
NoElement == <<"none", 0>>

NullFragment == [isNull |-> TRUE, uid |-> -1, index |-> -1, layer |-> NoElement]

ForeignFragment == [isNull |-> FALSE, uid |-> -1, index |-> -1, layer |-> NoElement]

AsFragment(ph) ==
    [isNull |-> FALSE, uid |-> ph.uid, index |-> ph.index, layer |-> ph.layer]

\* the layer looked up by data-rsvg-index, whatever the fragment's uid
onFragmentShownByIndex(S, k, frag) ==
    IF ~frag.isNull /\ frag.index + 1 \in 1..Len(S.stepLayers[k])
    THEN [S EXCEPT !.hidden = showLayer(@, S.stepLayers[k][frag.index + 1])]
    ELSE S

onFragmentShown(S, k, frag) ==
    IF ~frag.isNull /\ frag.uid = S.closureUid[k]
    THEN [S EXCEPT !.hidden = showLayer(@, frag.layer)]
    ELSE S

onFragmentHidden(S, k, frag) ==
    IF ~frag.isNull /\ frag.uid = S.closureUid[k]
    THEN [S EXCEPT !.hidden = hideLayer(@, frag.layer)]
    ELSE S

\* a resynchronisation on every slide change
onSlideChangedAnywhere(S, k, current) ==
    [S EXCEPT !.hidden = syncFromVisibleFragments(@, S.stepLayers[k], S.placeholders[k])]

\* current.contains(container), current being a slide or "null"
onSlideChanged(S, k, current) ==
    IF current # "null" /\ current = cfg[k].slide
    THEN [S EXCEPT !.hidden =
            syncFromVisibleFragments(@, S.stepLayers[k], S.placeholders[k])]
    ELSE S

Handle(S, event, k, arg) ==
    CASE event = "fragmentshown"  -> onFragmentShown(S, k, arg)
      [] event = "fragmenthidden" -> onFragmentHidden(S, k, arg)
      [] event = "slidechanged"   -> onSlideChanged(S, k, arg)

\* The deck calls every listener registered for the event.
RECURSIVE Dispatch(_, _, _, _)
Dispatch(S, event, arg, order) ==
    IF order = <<>> THEN S
    ELSE LET k == Head(order)
             S1 == IF <<event, k>> \in S.subs THEN Handle(S, event, k, arg) ELSE S
         IN  Dispatch(S1, event, arg, Tail(order))

\* What the retrieval and the parse of an external graphic give: the graphic
\* appended to the container, or an exception.  A text that does not parse
\* gives no exception: parseFromString returns an error document, which holds
\* the n groups read before the error (none in some browsers).
inlineExternalSvg(S, k, outcome, n) ==
    CASE outcome = "ok" ->
            [threw |-> FALSE,
             state |-> [S EXCEPT !.dom[k] = [svg |-> TRUE, groups |-> cfg[k].svg],
                                 !.hidden = @ \cup AuthoredHidden(k, cfg[k].svg)]]
      [] outcome = "badparse" ->
            [threw |-> FALSE,
             state |-> [S EXCEPT !.dom[k] = [svg |-> TRUE, groups |-> SubSeq(cfg[k].svg, 1, n)],
                                 !.hidden = @ \cup AuthoredHidden(k, SubSeq(cfg[k].svg, 1, n))]]
      [] OTHER -> [threw |-> TRUE, state |-> S]

\* initContainer without the test of __rsvgProcessed
initContainerRescans(S, k) ==
    LET S1 == [S EXCEPT !.processed[k] = TRUE]
    IN  IF ~S1.dom[k].svg /\ cfg[k].src # ""
        THEN [S1 EXCEPT !.pc[k] = "fetching"]
        ELSE IF ~S1.dom[k].svg
        THEN [S1 EXCEPT !.pc[k] = "fulfilled"]
        ELSE [buildSteps(S1, k, S1.dom[k].groups) EXCEPT !.pc[k] = "fulfilled"]

\* initContainer up to its await
initContainer(S, k) ==
    IF S.processed[k] THEN S
    ELSE LET S1 == [S EXCEPT !.processed[k] = TRUE]
         IN  IF ~S1.dom[k].svg /\ cfg[k].src # ""
             THEN [S1 EXCEPT !.pc[k] = "fetching"]
             ELSE IF ~S1.dom[k].svg
             THEN [S1 EXCEPT !.pc[k] = "fulfilled"]
             ELSE [buildSteps(S1, k, S1.dom[k].groups) EXCEPT !.pc[k] = "fulfilled"]

\* the error logged and thrown again
onLoadErrorRethrows(S, k) ==
    [S EXCEPT !.logged = @ \cup {k}, !.pc[k] = "rejected"]

\* the catch of initContainer: the error is logged and the promise fulfils
onLoadError(S, k) ==
    [S EXCEPT !.logged = @ \cup {k}, !.pc[k] = "fulfilled"]

\* initContainer after its await
resumeContainer(S, k, outcome, n) ==
    LET r == inlineExternalSvg(S, k, outcome, n)
    IN  IF r.threw THEN onLoadError(r.state, k)
        ELSE [buildSteps(r.state, k, r.state.dom[k].groups) EXCEPT !.pc[k] = "fulfilled"]

RECURSIVE initContainers(_, _)
initContainers(S, order) ==
    IF order = <<>> THEN S
    ELSE initContainers(initContainer(S, Head(order)), Tail(order))

RECURSIVE teardownAll(_, _)
teardownAll(S, fns) ==
    IF fns = <<>> THEN S
    ELSE teardownAll(teardown(S, Head(fns)), Tail(fns))

\* Promise.all over the promises of the containers a call of init started
settle(call, p) ==
    IF call.state # "pending" THEN call
    ELSE IF \E k \in call.awaits : p[k] = "rejected" THEN [call EXCEPT !.state = "rejected"]
    ELSE IF \A k \in call.awaits : p[k] = "fulfilled" THEN [call EXCEPT !.state = "resolved"]
    ELSE call

-----------------------------------------------------------------------------
(* Bounds *)

\* calls of init
MaxInits == 2

\* groups of a graphic and entries of an include list, where they are drawn
MaxGroups == 3

MaxInclude == 2

-----------------------------------------------------------------------------
(* The floating debug helper.  Lengths of the element are in half pixels of
   the slide's own (unscaled) coordinates, pointer coordinates in rendered
   pixels, percentages in tenths of a percent. *)

\* pointer-downs of a run that start a drag
MaxStarts == 2

\* slide.clientWidth and slide.clientHeight, in pixels
ClientWidth == 200

ClientHeight == 200

\* the widths slide.getBoundingClientRect() can have: scale 1/2 and 2
RectWidths == {100, 400}

\* where the pointer can be, <<clientX, clientY>>
PointerAt == {<<0, 0>>, <<2, 1>>, <<10, 5>>}

\* the sizes the CSS resize handle can give the element, <<width, height>>
Sizes == {<<120, 80>>, <<121, 83>>}

\* n / d rounded to the nearest integer, halves away from zero (toFixed)
RoundAway(n, d) ==
    IF n >= 0 THEN (2 * n + d) \div (2 * d)
    ELSE -((2 * (-n) + d) \div (2 * d))

\* Math.round of a length in half pixels: halves go up
MathRound(h) == (h + 1) \div 2

\* (px / total * 100).toFixed(1), px in half pixels, total in pixels
toFixed1(h, total) == RoundAway(h * 1000, 2 * total)

\* rect.width / slide.clientWidth, or 1 when that is 0 or NaN
getScale(o) ==
    IF o.rectWidth = 0 \/ ClientWidth = 0 THEN [num |-> 1, den |-> 1]
    ELSE [num |-> o.rectWidth, den |-> ClientWidth]

\* The rendered offsets of the element from the slide are its offsets times
\* the scale, so dividing them by the scale gives the offsets.
measure(o) ==
    [left |-> o.left, top |-> o.top, width |-> o.width, height |-> o.height,
     leftPct |-> toFixed1(o.left, ClientWidth),
     topPct |-> toFixed1(o.top, ClientHeight)]

hudText(m) ==
    [leftPct |-> m.leftPct, left |-> MathRound(m.left),
     topPct |-> m.topPct, top |-> MathRound(m.top),
     w |-> MathRound(m.width), h |-> MathRound(m.height)]

mirrored(m) ==
    [src |-> "mirrored", left |-> m.leftPct, top |-> m.topPct,
     w |-> MathRound(m.width), h |-> MathRound(m.height)]

updateHudAndVars(o, mirror) ==
    LET m == measure(o)
        o1 == IF o.huds > 0 THEN [o EXCEPT !.hud = hudText(m)] ELSE o
    IN  IF mirror
        THEN [o1 EXCEPT !.cssVars = mirrored(m), !.commits = @ + 1]
        ELSE o1

startDrag(o, p) ==
    [o EXCEPT !.startLeft = o.left, !.startTop = o.top,
              !.startX = p[1], !.startY = p[2],
              !.dragging = TRUE,
              !.moveListener = TRUE, !.upListener = TRUE]

\* (e.clientX - startX) / scale, in half pixels
scaled(delta, scale) == (2 * delta * scale.den) \div scale.num

\* a pointer-move that mirrors
onMoveMirrors(o, p) ==
    IF ~o.dragging THEN o
    ELSE LET scale == getScale(o)
             o1 == [o EXCEPT !.left = o.startLeft + scaled(p[1] - o.startX, scale),
                             !.top  = o.startTop  + scaled(p[2] - o.startY, scale)]
         IN  updateHudAndVars(o1, TRUE)

\* a pointer-move that adds the delta to the element's current offset
onMoveAccumulates(o, p) ==
    IF ~o.dragging THEN o
    ELSE LET scale == getScale(o)
             o1 == [o EXCEPT !.left = o.left + scaled(p[1] - o.startX, scale),
                             !.top  = o.top  + scaled(p[2] - o.startY, scale)]
         IN  updateHudAndVars(o1, FALSE)

onMove(o, p) ==
    IF ~o.dragging THEN o
    ELSE LET scale == getScale(o)
             o1 == [o EXCEPT !.left = o.startLeft + scaled(p[1] - o.startX, scale),
                             !.top  = o.startTop  + scaled(p[2] - o.startY, scale)]
         IN  updateHudAndVars(o1, FALSE)

\* a pointer-up that leaves the pointermove listener on the window
onUpKeepsMoveListener(o) ==
    updateHudAndVars([o EXCEPT !.dragging = FALSE], TRUE)

onUp(o) ==
    updateHudAndVars([o EXCEPT !.dragging = FALSE, !.moveListener = FALSE], TRUE)

initOne(o) ==
    IF ~o.hasSlide THEN o
    ELSE [o EXCEPT !.grips = IF @ > 0 THEN @ ELSE 1,
                   !.huds = IF @ > 0 THEN @ ELSE 1,
                   !.dragClosures = @ + 1,
                   !.observers = 1,
                   !.roPending = TRUE,
                   !.rafPending = @ + 1,
                   !.processed = TRUE]

\* the style element of the helper is in the document
injectStyles(o) == [o EXCEPT !.styled = TRUE]

\* a scan without the test of the processed set
initAllAgain(o) == initOne(injectStyles(o))

initAll(o) ==
    LET o1 == injectStyles(o)
    IN  IF ~o1.processed THEN initOne(o1) ELSE updateHudAndVars(o1, FALSE)

\* the element as authored: at (10%, 10%), 60px by 40px
Authored == [src |-> "authored", left |-> 100, top |-> 100, w |-> 60, h |-> 40]

NoHud == [leftPct |-> 0, left |-> 0, topPct |-> 0, top |-> 0, w |-> 0, h |-> 0]

Overlay(hasSlide, rectWidth) ==
    [hasSlide |-> hasSlide, rectWidth |-> rectWidth, styled |-> FALSE,
     processed |-> FALSE, grips |-> 0, huds |-> 0, dragClosures |-> 0,
     observers |-> 0, roPending |-> FALSE, rafPending |-> 0,
     left |-> 40, top |-> 40, width |-> 120, height |-> 80,
     cssVars |-> Authored, hud |-> NoHud,
     dragging |-> FALSE, startX |-> 0, startY |-> 0, startLeft |-> 0, startTop |-> 0,
     moveListener |-> FALSE, upListener |-> FALSE, resizing |-> FALSE,
     commits |-> 0, starts |-> 0]

-----------------------------------------------------------------------------
(* The layer plugin: initial state and operations *)

InitLayers ==
    /\ deck = "null"
    /\ processed = [k \in Containers |-> FALSE]
    /\ pc = [k \in Containers |-> "idle"]
    /\ fetchStatus = [k \in Containers |-> "none"]
    /\ dom = [k \in Containers |->
                [svg |-> cfg[k].inline,
                 groups |-> IF cfg[k].inline THEN cfg[k].svg ELSE <<>>]]
    /\ uidCounter = 0
    /\ closureUid = [k \in Containers |-> 0]
    /\ stepLayers = [k \in Containers |-> <<>>]
    /\ placeholders = [k \in Containers |-> <<>>]
    /\ hidden = UNION {AuthoredHidden(k, dom[k].groups) : k \in Containers}
    /\ subs = {}
    /\ teardownFns = <<>>
    /\ initCalls = <<>>
    /\ logged = {}

Init ==
    /\ cfg \in [Containers -> FirstConfigs \cup SecondConfigs]
    /\ cfg["c1"] \in FirstConfigs
    /\ cfg["c2"] \in SecondConfigs
    /\ InitLayers
    /\ ov = Overlay(TRUE, 100)

\* init(revealDeck)
PluginInit ==
    /\ Len(initCalls) < MaxInits
    /\ deck' = "deck"
    /\ LET S == initContainers(Pack, ContainerOrder)
           awaits == {k \in Containers : ~processed[k] /\ S.pc[k] = "fetching"}
       IN  /\ Unpack(S)
           /\ initCalls' = Append(initCalls,
                                  settle([awaits |-> awaits, state |-> "pending"], S.pc))
    /\ UNCHANGED <<cfg, fetchStatus, ov>>

Outcomes == {"ok", "notok", "neterror", "badparse"}

\* the retrieval of container k ends and initContainer resumes
FetchDoneAt(k, outcome, n) ==
    /\ pc[k] = "fetching"
    /\ LET S == resumeContainer(Pack, k, outcome, n)
       IN  /\ Unpack(S)
           /\ initCalls' = MapSeq(initCalls, LAMBDA call : settle(call, S.pc))
    /\ fetchStatus' = [fetchStatus EXCEPT ![k] = outcome]
    /\ UNCHANGED <<cfg, deck, ov>>

FetchDone ==
    \E k \in Containers, outcome \in Outcomes :
        \E n \in 0..Len(cfg[k].svg) :
            /\ outcome # "badparse" => n = 0
            /\ FetchDoneAt(k, outcome, n)

\* destroy()
Destroy ==
    /\ Unpack([teardownAll(Pack, teardownFns) EXCEPT !.teardownFns = <<>>])
    /\ UNCHANGED <<cfg, deck, fetchStatus, initCalls, ov>>

\* The deck shows placeholder i of container k: it gets the class visible and
\* fragmentshown is dispatched.
FragmentShownAt(k, i) ==
    /\ i \in 1..Len(placeholders[k])
    /\ LET S == [Pack EXCEPT !.placeholders[k][i].visible = TRUE]
       IN  Unpack(Dispatch(S, "fragmentshown", AsFragment(placeholders[k][i]),
                           ContainerOrder))
    /\ UNCHANGED <<cfg, deck, fetchStatus, initCalls, ov>>

FragmentShown == \E k \in Containers : \E i \in 1..Len(placeholders[k]) : FragmentShownAt(k, i)

FragmentHiddenAt(k, i) ==
    /\ i \in 1..Len(placeholders[k])
    /\ LET S == [Pack EXCEPT !.placeholders[k][i].visible = FALSE]
       IN  Unpack(Dispatch(S, "fragmenthidden", AsFragment(placeholders[k][i]),
                           ContainerOrder))
    /\ UNCHANGED <<cfg, deck, fetchStatus, initCalls, ov>>

FragmentHidden == \E k \in Containers : \E i \in 1..Len(placeholders[k]) : FragmentHiddenAt(k, i)

\* A fragment event of the deck for a fragment that is no placeholder.
OtherFragmentAt(event, frag) ==
    /\ Unpack(Dispatch(Pack, event, frag, ContainerOrder))
    /\ UNCHANGED <<cfg, deck, fetchStatus, initCalls, ov>>

OtherFragment ==
    \E event \in {"fragmentshown", "fragmenthidden"}, frag \in {ForeignFragment, NullFragment} :
        OtherFragmentAt(event, frag)

\* The deck changes the class visible of an attached placeholder without an
\* event (a jump to another slide or step).
HostSetsVisible ==
    /\ \E k \in Containers : \E i \in 1..Len(placeholders[k]) :
          /\ placeholders[k][i].attached
          /\ placeholders' = [placeholders EXCEPT ![k][i].visible = ~@]
    /\ UNCHANGED <<cfg, deck, processed, pc, fetchStatus, dom, uidCounter, closureUid,
                   stepLayers, hidden, subs, teardownFns, initCalls, logged, ov>>

SlideChangedAt(current) ==
    /\ Unpack(Dispatch(Pack, "slidechanged", current, ContainerOrder))
    /\ UNCHANGED <<cfg, deck, fetchStatus, initCalls, ov>>

SlideChanged == \E current \in Slides \cup {"null"} : SlideChangedAt(current)

Next ==
    \/ PluginInit
    \/ FetchDone
    \/ Destroy
    \/ FragmentShown
    \/ FragmentHidden
    \/ OtherFragment
    \/ HostSetsVisible
    \/ SlideChanged

Spec == Init /\ [][Next]_vars

-----------------------------------------------------------------------------
(* The floating debug helper: operations *)

\* ready, slidechanged or DOMContentLoaded: a scan of the document
Scan ==
    /\ ov' = initAll(ov)
    /\ UNCHANGED lvars

\* the listener of the target without the test of e.altKey
PointerDownIgnoresAlt(where, alt, p) ==
    LET starts == ov.dragClosures > 0 /\ where \in {"grip", "inside"}
        o0 == IF starts THEN [ov EXCEPT !.starts = @ + 1] ELSE ov
        o1 == IF starts THEN startDrag(o0, p) ELSE o0
    IN  /\ starts => ov.starts < MaxStarts
        /\ ov' = o1
        /\ UNCHANGED lvars

\* pointerdown on the grip, inside the target off the grip, or elsewhere.
\* The capturing listener of the target runs before the listener of the grip.
PointerDownAt(where, alt, p) ==
    LET starts == ov.dragClosures > 0 /\ (where = "grip" \/ (where = "inside" /\ alt))
        o0 == IF starts THEN [ov EXCEPT !.starts = @ + 1] ELSE ov
        o1 == IF ov.dragClosures > 0 /\ where \in {"grip", "inside"} /\ alt
              THEN startDrag(o0, p) ELSE o0
        o2 == IF ov.dragClosures > 0 /\ ov.grips > 0 /\ where = "grip"
              THEN startDrag(o1, p) ELSE o1
    IN  /\ starts => ov.starts < MaxStarts
        /\ ov' = o2
        /\ UNCHANGED lvars

PointerDown ==
    \E where \in {"grip", "inside", "outside"}, alt \in BOOLEAN, p \in PointerAt :
        PointerDownAt(where, alt, p)

\* pointermove on the window
PointerMoveAt(p) ==
    /\ ov' = IF ov.moveListener THEN onMove(ov, p) ELSE ov
    /\ UNCHANGED lvars

PointerMove == \E p \in PointerAt : PointerMoveAt(p)

\* pointerup on the window; the listener is registered with once: true.  The
\* release also ends a pull of the resize handle, for which no listener runs.
PointerUp ==
    /\ LET o == [ov EXCEPT !.resizing = FALSE]
       IN  ov' = IF ov.upListener THEN onUp([o EXCEPT !.upListener = FALSE]) ELSE o
    /\ UNCHANGED lvars

\* the user, holding the CSS resize handle of the target, pulls it
Resize ==
    /\ \E s \in Sizes :
          /\ <<ov.width, ov.height>> # s
          /\ ov' = [ov EXCEPT !.width = s[1], !.height = s[2],
                              !.resizing = TRUE,
                              !.roPending = (ov.observers > 0)]
    /\ UNCHANGED lvars

\* the ResizeObserver callback
ResizeObserverTick ==
    /\ ov.roPending
    /\ ov' = updateHudAndVars([ov EXCEPT !.roPending = FALSE], FALSE)
    /\ UNCHANGED lvars

\* the second of the two animation frames requested by initOne
DeferredCheck ==
    /\ ov.rafPending > 0
    /\ ov' = updateHudAndVars([ov EXCEPT !.rafPending = @ - 1], FALSE)
    /\ UNCHANGED lvars

\* the deck rescales the slide
Rescale ==
    /\ \E w \in RectWidths : w # ov.rectWidth /\ ov' = [ov EXCEPT !.rectWidth = w]
    /\ UNCHANGED lvars

InitOverlay ==
    /\ cfg = [k \in Containers |-> Bare]
    /\ InitLayers
    /\ \E hasSlide \in BOOLEAN, w \in RectWidths : ov = Overlay(hasSlide, w)

NextOverlay ==
    \/ Scan
    \/ PointerDown
    \/ PointerMove
    \/ PointerUp
    \/ Resize
    \/ ResizeObserverTick
    \/ DeferredCheck
    \/ Rescale

SpecOverlay == InitOverlay /\ [][NextOverlay]_vars

-----------------------------------------------------------------------------
(* buildSteps on drawn markup: one inline container whose groups, data-base,
   data-include and data-order are drawn from bounded sets *)

GroupPool ==
    {Layer("Axes"), Layer("Step1"), Group(TRUE, "STEP1", "g1"), Group(TRUE, "", "Step2")}

IncludePool == {"axes", "Step1", " Step2", ""}

BasePool == {<<>>, <<"AXES", "", "Step1">>}

OrderPool == {"", "document", "reverse", "Reverse"}

InitBuild ==
    /\ \E svg \in SeqsUpTo(GroupPool, MaxGroups), include \in SeqsUpTo(IncludePool, MaxInclude),
          base \in BasePool, order \in OrderPool :
          cfg = [k \in Containers |->
                    IF k = "c1"
                    THEN [svg |-> svg, inline |-> TRUE, src |-> "", base |-> base,
                          include |-> include, order |-> order, slide |-> "s1"]
                    ELSE Bare]
    /\ InitLayers
    /\ ov = Overlay(TRUE, 100)

\* the first call of init
FirstInit == initCalls = <<>> /\ PluginInit

SpecBuild == InitBuild /\ [][FirstInit]_vars

-----------------------------------------------------------------------------
(* Vocabulary of the properties *)

Built(k) == closureUid[k] > 0

\* the label of element el of container k, lower-cased
LabelOf(k, g) == toLowerCase(getInkscapeLabel(dom[k].groups[g]))

\* the groups of container k that the plugin treats as layers
Discovered(k) == Range(findLayers(dom[k].groups))

IncludeOf(k) == toList(cfg[k].include)

InBase(k, name) ==
    \E i \in 1..Len(cfg[k].base) :
        trim(cfg[k].base[i]) # "" /\ toLowerCase(trim(cfg[k].base[i])) = toLowerCase(name)

NamesGroup(k, name) == \E g \in Discovered(k) : LabelOf(k, g) = toLowerCase(name)

\* N step layers and N placeholders, the i-th bound to a group that carries
\* the i-th name
BoundInOrder(k, names) ==
    /\ Len(stepLayers[k]) = Len(names)
    /\ Len(placeholders[k]) = Len(names)
    /\ \A i \in 1..Len(names) :
          /\ i <= Len(placeholders[k])
          /\ placeholders[k][i].attached
          /\ placeholders[k][i].index = i - 1
          /\ \E g \in Discovered(k) :
                /\ placeholders[k][i].layer = <<k, g>>
                /\ LabelOf(k, g) = toLowerCase(names[i])

(* C1 as stated: for an include list of length N whose names all are labels
   of existing groups, N step layers and N placeholders are created, the i-th
   placeholder bound to the group named by the i-th entry. *)
C1_AsStated ==
    (/\ Built("c1")
     /\ Len(IncludeOf("c1")) > 0
     /\ \A i \in 1..Len(IncludeOf("c1")) : NamesGroup("c1", IncludeOf("c1")[i]))
    => BoundInOrder("c1", IncludeOf("c1"))

(* C1, amended: for an include list of length N whose names all are labels of
   existing groups and none of which is in the base set, N step layers and N
   placeholders are created, the i-th placeholder bound to a group carrying
   the i-th name; repeated names and labels carried by several groups
   included. *)
C1_IncludeOrder ==
    (/\ Built("c1")
     /\ Len(IncludeOf("c1")) > 0
     /\ \A i \in 1..Len(IncludeOf("c1")) :
           /\ NamesGroup("c1", IncludeOf("c1")[i])
           /\ ~InBase("c1", IncludeOf("c1")[i]))
    => BoundInOrder("c1", IncludeOf("c1"))

\* an include list that names one group twice, of a graphic in which two
\* groups carry that label, has been built
C1_Witness ==
    /\ Built("c1")
    /\ Len(IncludeOf("c1")) = 2
    /\ toLowerCase(IncludeOf("c1")[1]) = toLowerCase(IncludeOf("c1")[2])
    /\ ~InBase("c1", IncludeOf("c1")[1])
    /\ Cardinality({g \in Discovered("c1") : LabelOf("c1", g) = toLowerCase(IncludeOf("c1")[1])}) = 2
    /\ Len(placeholders["c1"]) = 2

\* the place of element el in the document
DocIndex(el) == el[2]

NonBaseOf(k) == {<<k, g>> : g \in {h \in Discovered(k) : ~InBase(k, LabelOf(k, h))}}

StepsAre(k, els, up) ==
    /\ Range(stepLayers[k]) = els
    /\ Len(stepLayers[k]) = Cardinality(els)
    /\ \A i, j \in 1..Len(stepLayers[k]) :
          i < j => IF up THEN DocIndex(stepLayers[k][i]) < DocIndex(stepLayers[k][j])
                   ELSE DocIndex(stepLayers[k][i]) > DocIndex(stepLayers[k][j])
    /\ Len(placeholders[k]) = Len(stepLayers[k])
    /\ \A i \in 1..Len(stepLayers[k]) : placeholders[k][i].layer = stepLayers[k][i]

(* C2: without an include list, data-order 'reverse' gives the step layers
   and their placeholders in exactly the reverse of the document order of the
   groups whose label is not in the base set; 'document' or no data-order
   gives exactly that document order. *)
C2_Order ==
    (Built("c1") /\ IncludeOf("c1") = <<>>) =>
        /\ cfg["c1"].order = "reverse" => StepsAre("c1", NonBaseOf("c1"), FALSE)
        /\ cfg["c1"].order \in {"", "document"} => StepsAre("c1", NonBaseOf("c1"), TRUE)

\* three groups of which one is a base layer were built in reverse order
C2_Witness ==
    /\ Built("c1")
    /\ IncludeOf("c1") = <<>>
    /\ cfg["c1"].order = "reverse"
    /\ Len(dom["c1"].groups) = 3
    /\ Cardinality(NonBaseOf("c1")) = 2
    /\ DocIndex(stepLayers["c1"][1]) = 3

-----------------------------------------------------------------------------
(* The plugin between buildSteps and teardown *)

\* container k is set up and not torn down: its teardown closure is pending
Live(k) == k \in Range(teardownFns)

\* the elements of container k
ElementsOf(k) == {<<k, g>> : g \in 1..Len(dom[k].groups)}

AttachedOf(k) == {i \in 1..Len(placeholders[k]) : placeholders[k][i].attached}

(* C3: a fragmentshown or fragmenthidden event for an attached placeholder p
   shows, respectively hides, exactly the layer bound to p and leaves every
   other layer of every container as it was; an event for a fragment that is
   no placeholder of the plugin changes no layer. *)
C3_ExactlyBoundLayer ==
    [][/\ \A k \in Containers : \A i \in AttachedOf(k) :
             /\ FragmentShownAt(k, i) => hidden' = hidden \ {placeholders[k][i].layer}
             /\ FragmentHiddenAt(k, i) => hidden' = hidden \cup {placeholders[k][i].layer}
       /\ \A event \in {"fragmentshown", "fragmenthidden"} :
             \A frag \in {ForeignFragment, NullFragment} :
                OtherFragmentAt(event, frag) => hidden' = hidden
      ]_vars

\* both containers are set up; in each the first placeholder is shown with its
\* layer visible while another step layer of the same container stays hidden
C3_Witness ==
    \A k \in Containers :
        /\ Live(k)
        /\ Len(placeholders[k]) >= 2
        /\ placeholders[k][1].visible
        /\ placeholders[k][1].layer \notin hidden
        /\ ~placeholders[k][2].visible
        /\ placeholders[k][2].layer \in hidden

\* every call of init made so far has resolved
InitCompleted ==
    /\ initCalls # <<>>
    /\ \A n \in 1..Len(initCalls) : initCalls[n].state = "resolved"

TornDown ==
    /\ \A k \in Containers : Range(stepLayers[k]) \cap hidden = {}
    /\ \A k \in Containers : AttachedOf(k) = {}
    /\ subs = {}

(* C4: destroy() called after init has completed leaves every step layer of
   every container visible, no placeholder attached and no listener
   registered; from then on no event changes the visibility of a layer. *)
C4_Teardown ==
    /\ [][(InitCompleted /\ Destroy) => TornDown']_vars
    /\ [][(InitCompleted /\ teardownFns = <<>> /\ TornDown) => (TornDown' /\ hidden' = hidden)]_vars

\* both containers were set up and torn down, and a fragment event for a
\* removed placeholder came afterwards
C4_Witness ==
    /\ InitCompleted
    /\ teardownFns = <<>>
    /\ \A k \in Containers : Built(k) /\ Len(placeholders[k]) >= 2
    /\ \E k \in Containers : placeholders[k][1].visible /\ ~placeholders[k][2].visible
    /\ TornDown

IsScenario(k) == cfg[k] \in {Scenario, ExternalScenario}

ScenarioPlaceholders(k) ==
    /\ Len(stepLayers[k]) = 2
    /\ Len(placeholders[k]) = 2
    /\ placeholders[k][1].layer = <<k, 3>>
    /\ placeholders[k][2].layer = <<k, 5>>
    /\ getInkscapeLabel(dom[k].groups[3]) = "Step1"
    /\ getInkscapeLabel(dom[k].groups[5]) = "Step3"

(* C5 as stated: in the scenario exactly two placeholders are created, bound
   to Step1 then Step3, and Step2 is hidden in every state from init on. *)
C5_AsStated ==
    (IsScenario("c1") /\ Built("c1") /\ fetchStatus["c1"] # "badparse") =>
        /\ ScenarioPlaceholders("c1")
        /\ getInkscapeLabel(dom["c1"].groups[4]) = "Step2"
        /\ <<"c1", 4>> \in hidden

(* C5, amended: in the scenario exactly two placeholders are created, bound to
   Step1 then Step3, and Step2 is never hidden: the plugin leaves it at its
   default visibility in every state, whatever events occur. *)
C5_Scenario ==
    IsScenario("c1") =>
        /\ <<"c1", 4>> \notin hidden
        /\ (Built("c1") /\ fetchStatus["c1"] # "badparse") =>
              /\ ScenarioPlaceholders("c1")
              /\ getInkscapeLabel(dom["c1"].groups[4]) = "Step2"

\* the scenario is set up, Step1 has been shown and Step3 is still hidden
C5_Witness ==
    /\ cfg["c1"] = Scenario
    /\ Live("c1")
    /\ placeholders["c1"][1].visible
    /\ <<"c1", 3>> \notin hidden
    /\ <<"c1", 5>> \in hidden
    /\ <<"c1", 4>> \notin hidden

(* C7: between the end of buildSteps and teardown a container holds as many
   placeholders as it has step layers, placeholder i (data-rsvg-index = i)
   is bound to stepLayers[i], and no step changes the layer a placeholder
   is bound to. *)
C7_Binding ==
    /\ [](\A k \in Containers : Live(k) =>
            /\ Cardinality(AttachedOf(k)) = Len(stepLayers[k])
            /\ Len(placeholders[k]) = Len(stepLayers[k])
            /\ \A i \in 1..Len(stepLayers[k]) :
                  /\ placeholders[k][i].index = i - 1
                  /\ placeholders[k][i].layer = stepLayers[k][i])
    /\ [][\A k \in Containers : Built(k) =>
            /\ stepLayers'[k] = stepLayers[k]
            /\ Len(placeholders'[k]) = Len(placeholders[k])
            /\ \A i \in 1..Len(placeholders[k]) :
                  placeholders'[k][i].layer = placeholders[k][i].layer]_vars

\* a container whose include list repeats a name is set up and events have
\* shown its second placeholder only
C7_Witness ==
    /\ cfg["c2"] = ExternalRepeat
    /\ Live("c2")
    /\ Len(placeholders["c2"]) = 2
    /\ placeholders["c2"][1].layer = placeholders["c2"][2].layer
    /\ placeholders["c2"][2].visible
    /\ ~placeholders["c2"][1].visible

-----------------------------------------------------------------------------
(* The overlay helper's committed style variables *)

\* v is x rounded to the nearest integer, x = n / d with d > 0
Nearest(v, n, d) == 2 * (v * d - n) <= d /\ 2 * (n - v * d) <= d

\* the four variables hold the geometry of element o: left and top in tenths
\* of a percent of the slide, width and height in whole pixels
HoldsGeometry(css, o) ==
    /\ css.src = "mirrored"
    /\ Nearest(css.left, o.left * 1000, 2 * ClientWidth)
    /\ Nearest(css.top, o.top * 1000, 2 * ClientHeight)
    /\ Nearest(css.w, o.width, 2)
    /\ Nearest(css.h, o.height, 2)

(* C6: no pointer-move, resize-observer tick or deferred re-check writes the
   four style variables; they are written only by the pointer-up that ends a
   gesture, and then hold the geometry the element has at that pointer-up. *)
C6_CommitOnPointerUp ==
    /\ [][(PointerMove \/ ResizeObserverTick \/ DeferredCheck \/ Scan \/ Resize \/ Rescale)
            => (ov'.cssVars = ov.cssVars /\ ov'.commits = ov.commits)]_vars
    /\ [][(ov'.cssVars # ov.cssVars \/ ov'.commits # ov.commits)
            => /\ ov.dragging /\ ~ov'.dragging
               /\ PointerUp
               /\ ov'.commits = ov.commits + 1
               /\ HoldsGeometry(ov'.cssVars, ov')]_vars

\* mid-drag under scale 0.5: the element has been moved from (10%, 10%) to
\* (20%, 15%), the status display shows it, the variables are as authored
C6_Witness ==
    /\ ov.dragging
    /\ ov.rectWidth * 2 = ClientWidth
    /\ ov.left * 10 = 2 * ClientWidth * 2
    /\ ov.top * 20 = 2 * ClientHeight * 3
    /\ ov.hud.leftPct = 200
    /\ ov.hud.topPct = 150
    /\ ov.cssVars = Authored
    /\ ov.commits = 0

-----------------------------------------------------------------------------
(* Resynchronisation on slidechanged *)

VisibleAt(k, i) == placeholders[k][i].visible

(* C8 as stated: after a slidechanged whose current slide contains the
   container, every step layer is visible exactly if its placeholder carries
   'visible'; a slidechanged for another slide changes none of its layers. *)
C8_AsStated ==
    [][\A current \in Slides \cup {"null"} : SlideChangedAt(current) =>
          \A k \in Containers : Live(k) =>
             IF cfg[k].slide = current
             THEN \A i \in 1..Len(placeholders[k]) :
                     (placeholders[k][i].layer \notin hidden') <=> VisibleAt(k, i)
             ELSE hidden' \cap ElementsOf(k) = hidden \cap ElementsOf(k)
      ]_vars

(* C8, amended: after a slidechanged whose current slide contains the
   container, every step layer is visible exactly if at least one of the
   placeholders bound to it carries 'visible' (the layer's one placeholder,
   unless the include list names the layer more than once), whatever events
   were missed before; a slidechanged for another slide changes none of the
   container's layers. *)
C8_Resync ==
    [][\A current \in Slides \cup {"null"} : SlideChangedAt(current) =>
          \A k \in Containers : Live(k) =>
             IF cfg[k].slide = current
             THEN \A el \in Range(stepLayers[k]) :
                     (el \notin hidden') <=>
                        \E i \in 1..Len(placeholders[k]) :
                            placeholders[k][i].layer = el /\ VisibleAt(k, i)
             ELSE hidden' \cap ElementsOf(k) = hidden \cap ElementsOf(k)
      ]_vars

\* a resynchronised container: of its two placeholders the second alone
\* carries 'visible' and its layer alone is visible, while a container of
\* another slide still shows the stale state
C8_Witness ==
    \E k \in Containers :
        /\ Live(k)
        /\ Len(placeholders[k]) = 2
        /\ placeholders[k][1].layer # placeholders[k][2].layer
        /\ ~VisibleAt(k, 1) /\ VisibleAt(k, 2)
        /\ placeholders[k][1].layer \in hidden
        /\ placeholders[k][2].layer \notin hidden
        /\ \E d \in Containers \ {k} :
              /\ Live(d) /\ cfg[d].slide # cfg[k].slide
              /\ Len(placeholders[d]) >= 1
              /\ VisibleAt(d, 1) /\ placeholders[d][1].layer \in hidden

-----------------------------------------------------------------------------
(* Failures of the retrieval *)

Untouched(k) ==
    /\ ~dom[k].svg
    /\ placeholders[k] = <<>>
    /\ hidden \cap {<<k, g>> : g \in 1..Len(cfg[k].svg)} = {}
    /\ \A e \in Events : <<e, k>> \notin subs
    /\ ~Live(k)

\* container k is set up as its own markup and graphic alone determine
SetUpAlone(k) ==
    /\ stepLayers[k] = MapSeq(StepLayers(cfg[k], dom[k].groups), LAMBDA g : <<k, g>>)
    /\ Len(placeholders[k]) = Len(stepLayers[k])
    /\ \A i \in 1..Len(placeholders[k]) :
          /\ placeholders[k][i].layer = stepLayers[k][i]
          /\ placeholders[k][i].uid = closureUid[k]
    /\ \A d \in Containers \ {k} : closureUid[d] # closureUid[k]
    /\ Live(k) => /\ \A e \in Events : <<e, k>> \in subs
                  /\ AttachedOf(k) = 1..Len(placeholders[k])

(* C9: a container whose retrieval returns a non-success status gets no
   graphic, no placeholders, no hidden layers and no listeners; every other
   container is set up as its own markup determines; and no promise returned
   by init rejects: it resolves once the retrievals it awaits have ended. *)
C9_FailureContained ==
    /\ \A k \in Containers : fetchStatus[k] = "notok" =>
          /\ Untouched(k)
          /\ k \in logged
          /\ \A d \in Containers \ {k} : Built(d) => SetUpAlone(d)
    /\ \A n \in 1..Len(initCalls) :
          /\ initCalls[n].state # "rejected"
          /\ (\A k \in initCalls[n].awaits : pc[k] # "fetching") => initCalls[n].state = "resolved"

\* the second container's retrieval failed while the first one's was pending;
\* the first was then loaded and set up, and init resolved
C9_Witness ==
    /\ fetchStatus["c2"] = "notok"
    /\ fetchStatus["c1"] = "ok"
    /\ uidCounter = 1
    /\ Live("c1")
    /\ Len(placeholders["c1"]) = 2
    /\ initCalls # <<>>
    /\ initCalls[1].awaits = Containers
    /\ initCalls[1].state = "resolved"

(* C10: when the retrieved text does not parse, the failure is reported and
   the container is left alone: nothing appended, no layer hidden, no
   placeholder created, no listener registered. *)
C10_ParseFailureStops ==
    \A k \in Containers : fetchStatus[k] = "badparse" => (k \in logged /\ Untouched(k))

-----------------------------------------------------------------------------
(* Calls of init *)

(* C11: every promise returned by init resolves only after every container
   matched by the selector has finished its setup (retrieved and built, or
   aborted on failure); and whatever the order in which the retrievals
   complete, a container that was built is set up as its own markup and
   graphic determine. *)
C11_InitAwaitsAll ==
    /\ \A n \in 1..Len(initCalls) :
          initCalls[n].state = "resolved" => \A k \in Containers : pc[k] = "fulfilled"
    /\ \A k \in Containers : Built(k) => SetUpAlone(k)

\* what the plugin holds for container k
OfContainer(k) ==
    <<pc[k], fetchStatus[k], dom[k], closureUid[k], stepLayers[k], placeholders[k],
      hidden \cap ElementsOf(k), {e \in Events : <<e, k>> \in subs},
      Len(SelectSeq(teardownFns, LAMBDA d : d = k)), k \in logged>>

(* C12: a call of init leaves a container that an earlier call has scanned
   as it is, its retrieval pending or not: the call starts no retrieval for
   it, appends no graphic, creates no placeholder, subscribes no handler and
   pushes no teardown closure. *)
C12_ReinitNoOp ==
    [][PluginInit =>
          \A k \in Containers : processed[k] =>
             /\ OfContainer(k)' = OfContainer(k)
             /\ uidCounter' = uidCounter
             /\ k \notin initCalls'[Len(initCalls')].awaits]_vars

\* init was called again while the retrieval of the second container was
\* pending: the inline container is still built once, the retrieval still
\* pending once
C12_Witness ==
    /\ Len(initCalls) = 2
    /\ initCalls[1].awaits = {"c2"}
    /\ initCalls[1].state = "pending"
    /\ initCalls[2].awaits = {}
    /\ pc["c2"] = "fetching"
    /\ ~dom["c2"].svg
    /\ uidCounter = 1
    /\ teardownFns = <<"c1">>
    /\ AttachedOf("c1") = 1..Len(placeholders["c1"])

-----------------------------------------------------------------------------
(* The overlay helper's gestures and scans *)

(* C13: the drag state goes from idle to dragging only by a pointer-down on
   the grip or a pointer-down inside the target with Alt held; a pointer-down
   inside the target, off the grip and without Alt, leaves the state idle and
   the element where it is; the state goes from dragging to idle by a
   pointer-up and by no other event. *)
C13_DragStateMachine ==
    /\ [][(~ov.dragging /\ ov'.dragging) =>
            \E p \in PointerAt :
                \/ \E alt \in BOOLEAN : PointerDownAt("grip", alt, p)
                \/ PointerDownAt("inside", TRUE, p)]_vars
    /\ [][\A p \in PointerAt :
            (~ov.dragging /\ PointerDownAt("inside", FALSE, p)) =>
                (~ov'.dragging /\ ov'.left = ov.left /\ ov'.top = ov.top)]_vars
    /\ [][(ov.dragging /\ ~ov'.dragging) => PointerUp]_vars

\* a first gesture has ended by its pointer-up and a second one is dragging
C13_Witness ==
    /\ ov.dragging
    /\ ov.starts = 2
    /\ ov.commits = 1
    /\ ov.cssVars.src = "mirrored"

(* C14: a resize-observer tick does not write the four style variables, and
   the release of the pointer that ends a resize of the observed target
   commits the measured geometry to them. *)
C14_ResizeCommits ==
    /\ [][ResizeObserverTick => ov'.cssVars = ov.cssVars]_vars
    /\ [][(ov.resizing /\ ~ov'.resizing /\ ov.observers > 0)
            => HoldsGeometry(ov'.cssVars, ov')]_vars

\* the decoration of element o: one grip, one HUD, one set of drag listeners,
\* one resize observer
DecoratedOnce(o) ==
    /\ o.grips = 1
    /\ o.huds = 1
    /\ o.dragClosures = 1
    /\ o.observers = 1

(* C19 as stated: after any number of scans the target has exactly one grip, one HUD,
   one set of drag listeners and one resize observer, and a scan over a
   processed target changes its status display only. *)
C19_AsStated ==
    /\ [](ov.styled => DecoratedOnce(ov))
    /\ [][(Scan /\ ov.processed) => ov' = [ov EXCEPT !.hud = ov'.hud]]_vars

(* C19, amended: after any number of scans a target that lies inside a slide has
   exactly one grip, one HUD, one set of drag listeners and one resize
   observer, and a scan over a processed target changes its status display
   only; a target outside every slide is never decorated. *)
C19_DecoratedOnce ==
    /\ [](ov.styled =>
            IF ov.hasSlide THEN ov.processed /\ DecoratedOnce(ov)
            ELSE /\ ~ov.processed
                 /\ ov.grips = 0 /\ ov.huds = 0 /\ ov.dragClosures = 0 /\ ov.observers = 0)
    /\ [][(Scan /\ ov.processed) => ov' = [ov EXCEPT !.hud = ov'.hud]]_vars

\* a scan over the processed target, resized since its first scan, has
\* refreshed the status display before any deferred update or gesture
C19_Witness ==
    /\ ov.processed
    /\ DecoratedOnce(ov)
    /\ ov.rafPending = 1
    /\ ov.roPending
    /\ ov.starts = 0
    /\ ov.width = 121
    /\ ov.hud.w = 61
    /\ ov.cssVars = Authored

-----------------------------------------------------------------------------
(* The classes of the groups: base, step, excluded *)

InInclude(k, name) ==
    \E i \in 1..Len(IncludeOf(k)) : toLowerCase(IncludeOf(k)[i]) = toLowerCase(name)

IsBase(k, g) == InBase(k, LabelOf(k, g))

IsStep(k, g) == <<k, g>> \in Range(stepLayers[k])

Bound(k, g) == \E i \in 1..Len(placeholders[k]) : placeholders[k][i].layer = <<k, g>>

(* C15: with an include list, a group whose label is in neither the base set
   nor the include list carries the hidden marker exactly if it was authored
   with it, in every state (at init, after every fragment or slide event,
   after teardown), and no placeholder is bound to it. *)
C15_ExcludedUntouched ==
    \A k \in Containers : IncludeOf(k) # <<>> =>
        \A g \in Discovered(k) :
            (~IsBase(k, g) /\ ~InInclude(k, LabelOf(k, g))) =>
                /\ (<<k, g>> \in hidden) <=> dom[k].groups[g].marked
                /\ ~IsStep(k, g)
                /\ ~Bound(k, g)

\* two containers with an excluded group, one authored hidden and one not,
\* were set up, had a step shown and were torn down
C15_Witness ==
    /\ IsScenario("c1") /\ cfg["c2"] = ExternalRepeat
    /\ fetchStatus["c2"] = "ok"
    /\ \A k \in Containers :
          /\ Built(k) /\ ~Live(k)
          /\ Len(dom[k].groups) = Len(cfg[k].svg)
          /\ placeholders[k][1].visible
    /\ <<"c1", 4>> \notin hidden
    /\ <<"c2", 3>> \in hidden

\* the call of init made for the build has resolved and nothing was reported
ResolvedQuietly ==
    /\ initCalls # <<>>
    /\ initCalls[1].state = "resolved"
    /\ logged = {}

(* C16 as stated: when the include list holds a name that matches no group,
   nothing is reported, init resolves, and the step layers and placeholders
   are the groups named by the other entries, in the list's order, indexed
   0, 1, ... *)
C16_AsStated ==
    (Built("c1") /\ \E i \in 1..Len(IncludeOf("c1")) : ~NamesGroup("c1", IncludeOf("c1")[i]))
    => /\ ResolvedQuietly
       /\ BoundInOrder("c1", SelectSeq(IncludeOf("c1"), LAMBDA n : NamesGroup("c1", n)))

(* C16, amended: when the include list holds a name that matches no group,
   nothing is reported, init resolves, and the step layers and placeholders
   are the groups named by the other entries that are not in the base set, in
   the list's order, indexed 0, 1, ... *)
C16_MissingDropped ==
    (Built("c1") /\ \E i \in 1..Len(IncludeOf("c1")) : ~NamesGroup("c1", IncludeOf("c1")[i]))
    => /\ ResolvedQuietly
       /\ BoundInOrder("c1", SelectSeq(IncludeOf("c1"),
                                       LAMBDA n : NamesGroup("c1", n) /\ ~InBase("c1", n)))

\* the first of two include names matches no group: the group named by the
\* second is step layer 0
C16_Witness ==
    /\ Built("c1")
    /\ Len(IncludeOf("c1")) = 2
    /\ ~NamesGroup("c1", IncludeOf("c1")[1])
    /\ NamesGroup("c1", IncludeOf("c1")[2])
    /\ ~InBase("c1", IncludeOf("c1")[2])
    /\ Len(dom["c1"].groups) = 3
    /\ Len(placeholders["c1"]) = 1
    /\ placeholders["c1"][1].index = 0
    /\ placeholders["c1"][1].layer \in hidden

(* C17: once a container is built, a group of it whose label matches an entry
   of the base list, letter case aside, does not carry the hidden marker in
   any state, whatever events and teardowns follow. *)
C17_BaseNeverHidden ==
    \A k \in Containers : Built(k) =>
        \A g \in Discovered(k) : IsBase(k, g) => <<k, g>> \notin hidden

\* a base layer authored hidden, its label in another case than the base
\* list's entry, is shown after a step was hidden again and after teardown
C17_Witness ==
    /\ cfg["c2"] = ExternalReverse
    /\ Built("c2") /\ ~Live("c2")
    /\ fetchStatus["c2"] = "ok"
    /\ dom["c2"].groups[1].marked
    /\ getInkscapeLabel(dom["c2"].groups[1]) = "Axes"
    /\ IsBase("c2", 1)
    /\ <<"c2", 1>> \notin hidden
    /\ placeholders["c2"][1].visible /\ ~placeholders["c2"][2].visible

(* C18: of a built container no group is both a base layer and a step layer;
   without an include list every group that is no base layer is a step
   layer, with one every step layer is named by it; and a group whose label
   is in both the base list and the include list is a base layer only: never
   hidden, no step layer, no placeholder bound to it. *)
C18_OneClass ==
    \A k \in Containers : Built(k) =>
        \A g \in Discovered(k) :
            /\ ~(IsBase(k, g) /\ IsStep(k, g))
            /\ IsStep(k, g) => (IncludeOf(k) = <<>> \/ InInclude(k, LabelOf(k, g)))
            /\ (IncludeOf(k) = <<>> /\ ~IsBase(k, g)) => IsStep(k, g)
            /\ (IsBase(k, g) /\ InInclude(k, LabelOf(k, g))) =>
                  /\ <<k, g>> \notin hidden
                  /\ ~Bound(k, g)

\* a container whose include list names its base layer is set up, and a
\* fragmenthidden event has hidden its step layer again
C18_Witness ==
    /\ cfg["c2"] = ExternalRepeat
    /\ Live("c2")
    /\ fetchStatus["c2"] = "ok"
    /\ IsBase("c2", 1) /\ InInclude("c2", LabelOf("c2", 1))
    /\ <<"c2", 1>> \notin hidden
    /\ placeholders["c2"][2].visible
    /\ <<"c2", 2>> \in hidden

(* C20: a call of init after destroy sets a container that was set up before
   up again: its step layers are hidden, one placeholder per step layer is
   attached and its handlers are subscribed. *)
C20_InitAfterDestroy ==
    [][(PluginInit /\ teardownFns = <<>>) =>
          \A k \in Containers : Built(k) =>
             /\ Live(k)'
             /\ Range(stepLayers'[k]) \subseteq hidden'
             /\ Cardinality(AttachedOf(k)') = Len(stepLayers'[k])
             /\ \A e \in Events : <<e, k>> \in subs']_vars

-----------------------------------------------------------------------------
(* destroy while a retrieval is pending *)

\* destroy has run since the init that started the pending retrieval of
\* container k: a container built by that init or later is torn down
DestroyedWhilePending(k) ==
    /\ pc[k] = "fetching"
    /\ \E d \in Containers \ {k} : Built(d) /\ ~Live(d)

(* C21: when destroy was called while the retrieval of a container was
   pending, then at the end of that retrieval the container is as torn down:
   no placeholder attached, no layer hidden by the plugin, no handler of it
   subscribed. *)
C21_DestroyWhilePending ==
    [][\A k \in Containers :
          (DestroyedWhilePending(k) /\ pc'[k] # "fetching") =>
             /\ AttachedOf(k)' = {}
             /\ (hidden' \cap ElementsOf(k)') \subseteq AuthoredHidden(k, dom'[k].groups)
             /\ \A e \in Events : <<e, k>> \notin subs']_vars

-----------------------------------------------------------------------------
(* The drag gesture *)

(* C22: while dragging, the offset of the element after a pointer-move is its
   offset at the start of the gesture plus the pointer's displacement since
   the start of the gesture divided by the slide's render scale, whatever
   pointer-moves came before. *)
C22_DragOffset ==
    [][\A p \in PointerAt :
          (ov.dragging /\ PointerMoveAt(p)) =>
             /\ (ov'.left - ov.startLeft) * ov.rectWidth
                   = 2 * (p[1] - ov.startX) * ClientWidth
             /\ (ov'.top - ov.startTop) * ov.rectWidth
                   = 2 * (p[2] - ov.startY) * ClientWidth]_vars

\* under scale 2, a drag started with the pointer at (10, 5) and moved to
\* (2, 1) has taken the element 4px left and 2px up
C22_Witness ==
    /\ ov.dragging
    /\ ov.rectWidth = 2 * ClientWidth
    /\ ov.startX = 10 /\ ov.startY = 5
    /\ ov.left = ov.startLeft - 8
    /\ ov.top = ov.startTop - 4
    /\ ov.hud.left = MathRound(ov.left)

(* C23: the pointer-up that ends a gesture, however many pointer-downs began
   it, commits the style variables exactly once and leaves the state idle
   with no pointermove and no pointerup listener on the window; in the idle
   state no listener is registered, and a pointer-move or pointer-up changes
   neither the element's position nor the style variables. *)
C23_CommitOnce ==
    /\ [](~ov.dragging => (~ov.moveListener /\ ~ov.upListener))
    /\ [][(ov.dragging /\ PointerUp) =>
            /\ ov'.commits = ov.commits + 1
            /\ HoldsGeometry(ov'.cssVars, ov')
            /\ ~ov'.dragging /\ ~ov'.moveListener /\ ~ov'.upListener]_vars
    /\ [][(~ov.dragging /\ (PointerMove \/ PointerUp)) =>
            /\ ov'.left = ov.left /\ ov'.top = ov.top
            /\ ov'.cssVars = ov.cssVars /\ ov'.commits = ov.commits]_vars

\* a gesture begun by two pointer-downs and moved has ended: one commit
C23_Witness ==
    /\ ~ov.dragging
    /\ ov.starts = 2
    /\ ov.commits = 1
    /\ ~ov.moveListener /\ ~ov.upListener
    /\ ov.left # 40
    /\ HoldsGeometry(ov.cssVars, ov)

====
